---- MODULE Spec2Model ----
(***************************************************************************)
(* autosit: a run resolves two hostnames, decides whether the SIT tunnel   *)
(* interface has to be (re)created and, if so, saves the address pair and  *)
(* drives ip/iptables/sysctl.  The model follows src/autosit.py statement  *)
(* by statement; every external call (DNS query, file access, subprocess)  *)
(* is one step of the run.                                                  *)
(***************************************************************************)
EXTENDS Integers, Sequences, FiniteSets, TLC

(* ------------------------------ bounds --------------------------------- *)
\* number of invocations of the program in one behaviour
MaxRuns == 2
\* longest --with-prefix list
MaxPrefixes == 2
\* longest --with-ipv4-route / --with-ipv6-route list
MaxRoutes == 2
\* longest Answer list of a DNS response
MaxAnswers == 2

Procs == {1, 2}
\* the processes that run in the sequential specification
SeqProcs == {1}

(* ------------------------------- text ---------------------------------- *)
\* text is a sequence of one-character strings
NL == "\n"
Digits == <<"0", "1", "2", "3", "4", "5", "6", "7", "8", "9">>
DigitSet == {Digits[k] : k \in 1..Len(Digits)}
DigitVal(c) == (CHOOSE k \in 1..Len(Digits) : Digits[k] = c) - 1

\* str(int) for an octet
Decimal(n) ==
    IF n < 10 THEN <<Digits[n + 1]>>
    ELSE IF n < 100 THEN <<Digits[(n \div 10) + 1], Digits[(n % 10) + 1]>>
    ELSE <<Digits[(n \div 100) + 1], Digits[((n \div 10) % 10) + 1], Digits[(n % 10) + 1]>>

\* an IPv4Address is its 32-bit integer (ipaddress.IPv4Address._ip)
IP(a, b, c, d) == ((a * 256 + b) * 256 + c) * 256 + d
Octet(ip, k) == (ip \div (256 ^ (4 - k))) % 256

\* str(IPv4Address): the dotted quad
IPv4Str(ip) ==
    Decimal(Octet(ip, 1)) \o <<".">> \o Decimal(Octet(ip, 2)) \o <<".">>
        \o Decimal(Octet(ip, 3)) \o <<".">> \o Decimal(Octet(ip, 4))

\* str.split(sep)
RECURSIVE Split(_, _)
Split(s, sep) ==
    IF \A k \in 1..Len(s) : s[k] # sep THEN <<s>>
    ELSE LET k == CHOOSE j \in 1..Len(s) :
                      s[j] = sep /\ \A h \in 1..(j - 1) : s[h] # sep
         IN <<SubSeq(s, 1, k - 1)>> \o Split(SubSeq(s, k + 1, Len(s)), sep)

\* ipaddress.IPv4Address._parse_octet: the octet's value, as a set that is empty
\* when the octet is rejected
ParseOctet(o) ==
    IF /\ Len(o) >= 1
       /\ Len(o) <= 3
       /\ \A k \in 1..Len(o) : o[k] \in DigitSet
       /\ (Len(o) > 1 => o[1] # "0")
    THEN LET v == IF Len(o) = 1 THEN DigitVal(o[1])
                  ELSE IF Len(o) = 2 THEN DigitVal(o[1]) * 10 + DigitVal(o[2])
                  ELSE DigitVal(o[1]) * 100 + DigitVal(o[2]) * 10 + DigitVal(o[3])
         IN IF v <= 255 THEN {v} ELSE {}
    ELSE {}

\* ipaddress.IPv4Address(text): {ip} on success, {} when AddressValueError is raised
IPv4Address(text) ==
    LET octets == Split(text, ".")
    IN IF /\ Len(text) > 0
          /\ \A k \in 1..Len(text) : text[k] # "/"
          /\ Len(octets) = 4
          /\ \A k \in 1..4 : ParseOctet(octets[k]) # {}
       THEN {IP(CHOOSE v \in ParseOctet(octets[1]) : TRUE,
                CHOOSE v \in ParseOctet(octets[2]) : TRUE,
                CHOOSE v \in ParseOctet(octets[3]) : TRUE,
                CHOOSE v \in ParseOctet(octets[4]) : TRUE)}
       ELSE {}

\* fp.readline() at offset pos (0-based): the text up to and including the next
\* newline, or the rest of the file
ReadLine(text, pos) ==
    LET rest == SubSeq(text, pos + 1, Len(text))
    IN IF \A k \in 1..Len(rest) : rest[k] # NL THEN rest
       ELSE LET k == CHOOSE j \in 1..Len(rest) :
                         rest[j] = NL /\ \A h \in 1..(j - 1) : rest[h] # NL
            IN SubSeq(rest, 1, k)

(* --------------------------- program inputs ---------------------------- *)
BSeq(S, lo, hi) == UNION {[1..n -> S] : n \in lo..hi}

\* the addresses the two hostnames may resolve to
A1 == IP(10, 0, 0, 1)
A2 == IP(10, 0, 0, 2)
Addrs == {A1, A2}
\* the data field of an answer record: an address, or a name (a CNAME answer)
AnswerData == {IPv4Str(a) : a \in Addrs} \cup {<<"h", ".", "x">>}
\* what the DoH endpoint may send back: an HTTP error; a DNS Status other than 0
\* (2, SERVFAIL), with or without an answer; Status 0 with an Answer list, which
\* is empty when there is no A record
Responses ==
    {[http_ok |-> FALSE, Status |-> 0, Answer |-> <<>>]}
    \cup {[http_ok |-> TRUE, Status |-> 2, Answer |-> a] : a \in BSeq(AnswerData, 0, 1)}
    \cup {[http_ok |-> TRUE, Status |-> 0, Answer |-> a] :
              a \in BSeq(AnswerData, 0, MaxAnswers)}

\* the k-th prefix and the k-th routes a command line may name
Prefix(k) == "2001:db8:" \o ToString(k) \o "::1/64"
Route4(k) == "192.0." \o ToString(k) \o ".0/24"
Route6(k) == "2001:db8:a" \o ToString(k) \o "::/48"
Modes == {"forward", "nat"}
\* the default of --tun-name
TunName == "autosit"

\* the command lines of the model.  argparse: --with-prefix is required with at
\* least one value; a route list is None (modelled as <<>>) when its option is
\* absent; the modes default to "forward"
ArgSets ==
    {[with_prefix |-> <<Prefix(1)>>,
      with_ipv4_route |-> <<>>,
      with_ipv6_route |-> <<>>,
      ipv4_mode |-> "forward", ipv6_mode |-> "forward"],
     [with_prefix |-> [k \in 1..MaxPrefixes |-> Prefix(k)],
      with_ipv4_route |-> [k \in 1..MaxRoutes |-> Route4(k)],
      with_ipv6_route |-> [k \in 1..MaxRoutes |-> Route6(k)],
      ipv4_mode |-> "forward", ipv6_mode |-> "forward"],
     [with_prefix |-> [k \in 1..MaxPrefixes |-> Prefix(MaxPrefixes + 1 - k)],
      with_ipv4_route |-> [k \in 1..MaxRoutes |-> Route4(MaxRoutes + 1 - k)],
      with_ipv6_route |-> [k \in 1..MaxRoutes |-> Route6(MaxRoutes + 1 - k)],
      ipv4_mode |-> "nat", ipv6_mode |-> "nat"],
     [with_prefix |-> [k \in 1..MaxPrefixes |-> Prefix(k)],
      with_ipv4_route |-> <<>>,
      with_ipv6_route |-> [k \in 1..MaxRoutes |-> Route6(k)],
      ipv4_mode |-> "nat", ipv6_mode |-> "forward"],
     [with_prefix |-> [k \in 1..MaxPrefixes |-> Prefix(1)],
      with_ipv4_route |-> [k \in 1..MaxRoutes |-> Route4(k)],
      with_ipv6_route |-> <<>>,
      ipv4_mode |-> "forward", ipv6_mode |-> "nat"]}

(* ------------------------------- state --------------------------------- *)
VARIABLES
    file,        \* /tmp/autosit_<tun_name>: [exists, text]
    iface,       \* the interface <tun_name>: [exists, local, remote, up, addrs]
    routes,      \* routes with the interface as device, in the order added
    iptables,    \* rules of iptables, in the order appended
    ip6tables,   \* rules of ip6tables, in the order appended
    sysctl,      \* [ipv4_forward, ipv6_forward]
    args,        \* the parsed command line
    runs,        \* invocations started so far
    pc,          \* per process: the statement it is at
    local_ip,    \* per process: local_host_ip
    remote_ip,   \* per process: remote_host_ip
    idx,         \* per process: position in the list a for loop walks
    decision,    \* per process: what needs_interface_recreation returned
    outcome,     \* per process: how the run ended
    error,       \* per process: the exception that ended the run and where it was raised
    log,         \* per process: the external calls of the run, in order
    before       \* per process: the world when the run started

world == <<file, iface, routes, iptables, ip6tables, sysctl>>
vars == <<file, iface, routes, iptables, ip6tables, sysctl, args, runs, pc,
          local_ip, remote_ip, idx, decision, outcome, error, log, before>>

NoFile == [exists |-> FALSE, text |-> <<>>]
NoIface == [exists |-> FALSE, local |-> 0, remote |-> 0, up |-> FALSE, addrs |-> <<>>]
World ==
    [file |-> file, iface |-> iface, routes |-> routes, iptables |-> iptables,
     ip6tables |-> ip6tables, sysctl |-> sysctl]
NoWorld ==
    [file |-> NoFile, iface |-> NoIface, routes |-> <<>>, iptables |-> <<>>,
     ip6tables |-> <<>>, sysctl |-> [ipv4_forward |-> FALSE, ipv6_forward |-> FALSE]]

\* one external call, as the log keeps it
Cmd(op, arg, l, r) == [step |-> "", op |-> op, arg |-> arg, local |-> l, remote |-> r]
NoError == [exc |-> "none", at |-> "none"]

Init ==
    /\ file = NoFile
    /\ iface = NoIface
    /\ routes = <<>>
    /\ iptables = <<>>
    /\ ip6tables = <<>>
    /\ sysctl = [ipv4_forward |-> FALSE, ipv6_forward |-> FALSE]
    /\ args \in ArgSets
    /\ runs = 0
    /\ pc = [p \in Procs |-> "idle"]
    /\ local_ip = [p \in Procs |-> 0]
    /\ remote_ip = [p \in Procs |-> 0]
    /\ idx = [p \in Procs |-> 0]
    /\ decision = [p \in Procs |-> "none"]
    /\ outcome = [p \in Procs |-> "none"]
    /\ error = [p \in Procs |-> NoError]
    /\ log = [p \in Procs |-> <<>>]
    /\ before = [p \in Procs |-> NoWorld]

(* ----------------------------- the lookup ------------------------------ *)
\* variant: look_up_ip_addr without the check of response_json["Status"]
look_up_ip_addr_NoStatusCheck(resp) ==
    IF ~resp.http_ok THEN [exc |-> "HTTPError", ip |-> 0]
    ELSE IF Len(resp.Answer) = 0 THEN [exc |-> "LookupError", ip |-> 0]
    ELSE LET a == IPv4Address(resp.Answer[1])
         IN IF a = {} THEN [exc |-> "AddressValueError", ip |-> 0]
            ELSE [exc |-> "none", ip |-> CHOOSE v \in a : TRUE]

\* look_up_ip_addr on the response the query got: the exception it raises, or
\* "none" and the address of the first answer record
look_up_ip_addr(resp) ==
    IF ~resp.http_ok THEN [exc |-> "HTTPError", ip |-> 0]
    ELSE IF resp.Status # 0 THEN [exc |-> "RuntimeError", ip |-> 0]
    ELSE IF Len(resp.Answer) = 0 THEN [exc |-> "LookupError", ip |-> 0]
    ELSE LET a == IPv4Address(resp.Answer[1])
         IN IF a = {} THEN [exc |-> "AddressValueError", ip |-> 0]
            ELSE [exc |-> "none", ip |-> CHOOSE v \in a : TRUE]

(* --------------------------- the state record -------------------------- *)
\* what save_tunnel_addrs writes: f"{local_ip}\n{remote_ip}"
SaveText(l, r) == IPv4Str(l) \o <<NL>> \o IPv4Str(r)

\* variant: the load with the line separator taken off each line before it is
\* parsed
LoadRecord_Stripped(f) ==
    IF ~f.exists THEN [exc |-> "FileNotFoundError", local |-> 0, remote |-> 0]
    ELSE LET strip(t) == IF Len(t) > 0 /\ t[Len(t)] = NL THEN SubSeq(t, 1, Len(t) - 1) ELSE t
             line1 == ReadLine(f.text, 0)
             line2 == ReadLine(f.text, Len(line1))
             a1 == IPv4Address(strip(line1))
             a2 == IPv4Address(strip(line2))
         IN IF a1 = {} \/ a2 = {}
            THEN [exc |-> "AddressValueError", local |-> 0, remote |-> 0]
            ELSE [exc |-> "none", local |-> CHOOSE v \in a1 : TRUE,
                  remote |-> CHOOSE v \in a2 : TRUE]

\* the with block of needs_interface_recreation: open, two readline calls, each
\* handed to IPv4Address; the exception raised, or "none" and the two addresses
LoadRecord(f) ==
    IF ~f.exists THEN [exc |-> "FileNotFoundError", local |-> 0, remote |-> 0]
    ELSE LET line1 == ReadLine(f.text, 0)
             line2 == ReadLine(f.text, Len(line1))
             a1 == IPv4Address(line1)
             a2 == IPv4Address(line2)
         IN IF a1 = {} \/ a2 = {}
            THEN [exc |-> "AddressValueError", local |-> 0, remote |-> 0]
            ELSE [exc |-> "none", local |-> CHOOSE v \in a1 : TRUE,
                  remote |-> CHOOSE v \in a2 : TRUE]

\* the comparison of needs_interface_recreation
AddressesChanged(l, r, old) == l # old.local \/ r # old.remote

(* ------------------------------ one run -------------------------------- *)
\* the run ends with an uncaught exception
Raise(p, exc) ==
    /\ pc' = [pc EXCEPT ![p] = "done"]
    /\ outcome' = [outcome EXCEPT ![p] = "failed"]
    /\ error' = [error EXCEPT ![p] = [exc |-> exc, at |-> pc[p]]]

Goto(p, label) ==
    /\ pc' = [pc EXCEPT ![p] = label]
    /\ UNCHANGED <<outcome, error>>

\* the log keeps each external call with the statement that made it
Logged(p, c) == log' = [log EXCEPT ![p] = Append(@, [c EXCEPT !.step = pc[p]])]

\* the program is started: main() parses the command line
Start(p) ==
    /\ pc[p] = "idle"
    /\ runs < MaxRuns
    /\ runs' = runs + 1
    /\ before' = [before EXCEPT ![p] = World]
    /\ Goto(p, "lookup_local")
    /\ UNCHANGED <<world, args, local_ip, remote_ip, idx, decision, log>>

\* local_host_ip = look_up_ip_addr(args.local_hostname)
LookupLocal(p) ==
    /\ pc[p] = "lookup_local"
    /\ \E resp \in Responses :
         LET res == look_up_ip_addr(resp)
         IN IF res.exc # "none"
            THEN Raise(p, res.exc) /\ UNCHANGED local_ip
            ELSE Goto(p, "lookup_remote") /\ local_ip' = [local_ip EXCEPT ![p] = res.ip]
    /\ UNCHANGED <<world, args, runs, remote_ip, idx, decision, log, before>>

\* remote_host_ip = look_up_ip_addr(args.remote_hostname)
LookupRemote(p) ==
    /\ pc[p] = "lookup_remote"
    /\ \E resp \in Responses :
         LET res == look_up_ip_addr(resp)
         IN IF res.exc # "none"
            THEN Raise(p, res.exc) /\ UNCHANGED remote_ip
            ELSE Goto(p, "link_show") /\ remote_ip' = [remote_ip EXCEPT ![p] = res.ip]
    /\ UNCHANGED <<world, args, runs, local_ip, idx, decision, log, before>>

\* variant: the return code of ip link show tested the wrong way round
LinkShow_Inverted(p) ==
    /\ pc[p] = "link_show"
    /\ Logged(p, Cmd("link_show", TunName, 0, 0))
    /\ IF iface.exists
       THEN Goto(p, "save") /\ decision' = [decision EXCEPT ![p] = "reconcile"]
       ELSE Goto(p, "load") /\ UNCHANGED decision
    /\ UNCHANGED <<world, args, runs, local_ip, remote_ip, idx, before>>

\* needs_interface_recreation: ip link show dev <tun_name>
LinkShow(p) ==
    /\ pc[p] = "link_show"
    /\ Logged(p, Cmd("link_show", TunName, 0, 0))
    /\ IF ~iface.exists
       THEN Goto(p, "save") /\ decision' = [decision EXCEPT ![p] = "reconcile"]
       ELSE Goto(p, "load") /\ UNCHANGED decision
    /\ UNCHANGED <<world, args, runs, local_ip, remote_ip, idx, before>>

\* needs_interface_recreation: read the record and compare
Load(p) ==
    /\ pc[p] = "load"
    /\ Logged(p, Cmd("read_state", TunName, 0, 0))
    /\ LET old == LoadRecord(file)
       IN IF old.exc # "none"
          THEN Raise(p, old.exc) /\ UNCHANGED decision
          ELSE IF AddressesChanged(local_ip[p], remote_ip[p], old)
          THEN Goto(p, "save") /\ decision' = [decision EXCEPT ![p] = "reconcile"]
          ELSE /\ pc' = [pc EXCEPT ![p] = "done"]
               /\ outcome' = [outcome EXCEPT ![p] = "healthy-noop"]
               /\ decision' = [decision EXCEPT ![p] = "healthy"]
               /\ UNCHANGED error
    /\ UNCHANGED <<world, args, runs, local_ip, remote_ip, idx, before>>

\* variant: a failure to write the record is swallowed and the run goes on
Save_WriteFailureIgnored(p) ==
    /\ pc[p] = "save"
    /\ Logged(p, Cmd("save_state", TunName, local_ip[p], remote_ip[p]))
    /\ \/ file' = [exists |-> TRUE, text |-> SaveText(local_ip[p], remote_ip[p])]
       \/ file' \in {file, [exists |-> TRUE, text |-> <<>>]}
    /\ Goto(p, "link_del")
    /\ UNCHANGED <<iface, routes, iptables, ip6tables, sysctl, args, runs,
                   local_ip, remote_ip, idx, decision, before>>

\* variant: the two fields stored one after the other, a failure between them
\* leaving the new local address beside the old remote one
Save_FieldByField(p) ==
    /\ pc[p] = "save"
    /\ Logged(p, Cmd("save_state", TunName, local_ip[p], remote_ip[p]))
    /\ \/ /\ file' = [exists |-> TRUE, text |-> SaveText(local_ip[p], remote_ip[p])]
          /\ Goto(p, "link_del")
       \/ /\ LET old == Split(file.text, NL)
             IN file' = [exists |-> TRUE,
                         text |-> IPv4Str(local_ip[p]) \o <<NL>>
                                      \o (IF Len(old) > 1 THEN old[2] ELSE <<>>)]
          /\ Raise(p, "OSError")
    /\ UNCHANGED <<iface, routes, iptables, ip6tables, sysctl, args, runs,
                   local_ip, remote_ip, idx, decision, before>>

\* save_tunnel_addrs: open(..., "w") truncates, write stores the pair; when open
\* fails the file is as it was, when write fails it is left empty
Save(p) ==
    /\ pc[p] = "save"
    /\ Logged(p, Cmd("save_state", TunName, local_ip[p], remote_ip[p]))
    /\ \/ /\ file' = [exists |-> TRUE, text |-> SaveText(local_ip[p], remote_ip[p])]
          /\ Goto(p, "link_del")
       \/ /\ file' \in {file, [exists |-> TRUE, text |-> <<>>]}
          /\ Raise(p, "OSError")
    /\ UNCHANGED <<iface, routes, iptables, ip6tables, sysctl, args, runs,
                   local_ip, remote_ip, idx, decision, before>>

(* ----------------------- the commands of a run ------------------------- *)
Range(q) == {q[k] : k \in 1..Len(q)}

\* main() returns 0 after the last command
Return(p) ==
    /\ pc' = [pc EXCEPT ![p] = "done"]
    /\ outcome' = [outcome EXCEPT ![p] = "reconciled"]
    /\ UNCHANGED error

\* variant: the result of the last command of main() is not looked at
Checked_LastUnchecked(p, succ, next) ==
    IF next = "done" THEN Return(p)
    ELSE IF ~succ THEN Raise(p, "CalledProcessError")
    ELSE Goto(p, next)

\* subprocess.run(..., check=True): CalledProcessError when the command fails
Checked(p, succ, next) ==
    IF ~succ THEN Raise(p, "CalledProcessError")
    ELSE IF next = "done" THEN Return(p)
    ELSE Goto(p, next)

\* the statement after the IPv4 mode block: the IPv6 mode block
AfterV4 ==
    IF args.ipv6_mode = "nat" THEN "v6_nat"
    ELSE IF args.ipv6_mode = "forward" THEN "v6_sysctl"
    ELSE "done"

\* the statement after the route loops: the IPv4 mode block
AfterRoutes6 ==
    IF args.ipv4_mode = "nat" THEN "v4_nat"
    ELSE IF args.ipv4_mode = "forward" THEN "v4_sysctl"
    ELSE AfterV4

\* if args.with_ipv6_route: for route in args.with_ipv6_route
AfterRoutes4 == IF Len(args.with_ipv6_route) > 0 THEN "route6_add" ELSE AfterRoutes6

\* variant: the IPv6 route loop placed before the IPv4 route loop
AfterPrefixes_V6First ==
    IF Len(args.with_ipv6_route) > 0 THEN "route6_add"
    ELSE IF Len(args.with_ipv4_route) > 0 THEN "route4_add"
    ELSE AfterRoutes6

\* if args.with_ipv4_route: for route in args.with_ipv4_route
AfterPrefixes == IF Len(args.with_ipv4_route) > 0 THEN "route4_add" ELSE AfterRoutes4

\* ip link del <tun_name>, without check=True: the result is not looked at
LinkDel(p) ==
    /\ pc[p] = "link_del"
    /\ Logged(p, Cmd("link_del", TunName, 0, 0))
    /\ \E ok \in BOOLEAN :
         IF ok /\ iface.exists
         THEN iface' = NoIface /\ routes' = <<>>
         ELSE UNCHANGED <<iface, routes>>
    /\ Goto(p, "tunnel_add")
    /\ UNCHANGED <<file, iptables, ip6tables, sysctl, args, runs,
                   local_ip, remote_ip, idx, decision, before>>

\* ip tunnel add <tun_name> mode sit remote R local L mode any ttl 255
TunnelAdd(p) ==
    /\ pc[p] = "tunnel_add"
    /\ Logged(p, Cmd("tunnel_add", TunName, local_ip[p], remote_ip[p]))
    /\ \E ok \in BOOLEAN :
         LET succ == ok /\ ~iface.exists
         IN /\ iface' = IF succ
                        THEN [exists |-> TRUE, local |-> local_ip[p],
                              remote |-> remote_ip[p], up |-> FALSE, addrs |-> <<>>]
                        ELSE iface
            /\ Checked(p, succ, "link_up")
    /\ UNCHANGED <<file, routes, iptables, ip6tables, sysctl, args, runs,
                   local_ip, remote_ip, idx, decision, before>>

\* variant: ip link set ... up run without check=True
LinkUp_Unchecked(p) ==
    /\ pc[p] = "link_up"
    /\ Logged(p, Cmd("link_up", TunName, 0, 0))
    /\ \E ok \in BOOLEAN :
         LET succ == ok /\ iface.exists
         IN iface' = IF succ THEN [iface EXCEPT !.up = TRUE] ELSE iface
    /\ Goto(p, "addr_add")
    /\ idx' = [idx EXCEPT ![p] = 1]
    /\ UNCHANGED <<file, routes, iptables, ip6tables, sysctl, args, runs,
                   local_ip, remote_ip, decision, before>>

\* ip link set dev <tun_name> up
LinkUp(p) ==
    /\ pc[p] = "link_up"
    /\ Logged(p, Cmd("link_up", TunName, 0, 0))
    /\ \E ok \in BOOLEAN :
         LET succ == ok /\ iface.exists
         IN /\ iface' = IF succ THEN [iface EXCEPT !.up = TRUE] ELSE iface
            /\ Checked(p, succ, "addr_add")
            /\ idx' = [idx EXCEPT ![p] = IF succ THEN 1 ELSE @]
    /\ UNCHANGED <<file, routes, iptables, ip6tables, sysctl, args, runs,
                   local_ip, remote_ip, decision, before>>

\* variant: the prefix list walked from its end
AddrAdd_Reversed(p) ==
    /\ pc[p] = "addr_add"
    /\ LET prefix == args.with_prefix[Len(args.with_prefix) + 1 - idx[p]]
           last == idx[p] = Len(args.with_prefix)
       IN /\ Logged(p, Cmd("addr_add", prefix, 0, 0))
          /\ \E ok \in BOOLEAN :
               LET succ == ok /\ iface.exists /\ prefix \notin Range(iface.addrs)
               IN /\ iface' = IF succ THEN [iface EXCEPT !.addrs = Append(@, prefix)]
                              ELSE iface
                  /\ Checked(p, succ, IF last THEN AfterPrefixes ELSE "addr_add")
                  /\ idx' = [idx EXCEPT ![p] = IF ~succ THEN @ ELSE IF last THEN 1 ELSE @ + 1]
    /\ UNCHANGED <<file, routes, iptables, ip6tables, sysctl, args, runs,
                   local_ip, remote_ip, decision, before>>

\* for prefix in args.with_prefix: ip addr add <prefix> dev <tun_name>
AddrAdd(p) ==
    /\ pc[p] = "addr_add"
    /\ LET prefix == args.with_prefix[idx[p]]
           last == idx[p] = Len(args.with_prefix)
       IN /\ Logged(p, Cmd("addr_add", prefix, 0, 0))
          /\ \E ok \in BOOLEAN :
               LET succ == ok /\ iface.exists /\ prefix \notin Range(iface.addrs)
               IN /\ iface' = IF succ THEN [iface EXCEPT !.addrs = Append(@, prefix)]
                              ELSE iface
                  /\ Checked(p, succ, IF last THEN AfterPrefixes ELSE "addr_add")
                  /\ idx' = [idx EXCEPT ![p] = IF ~succ THEN @ ELSE IF last THEN 1 ELSE @ + 1]
    /\ UNCHANGED <<file, routes, iptables, ip6tables, sysctl, args, runs,
                   local_ip, remote_ip, decision, before>>

\* for route in args.with_ipv4_route: ip route add <route> dev <tun_name>
Route4Add(p) ==
    /\ pc[p] = "route4_add"
    /\ LET route == args.with_ipv4_route[idx[p]]
           last == idx[p] = Len(args.with_ipv4_route)
       IN /\ Logged(p, Cmd("route_add", route, 0, 0))
          /\ \E ok \in BOOLEAN :
               LET succ == ok /\ iface.exists /\ iface.up /\ route \notin Range(routes)
               IN /\ routes' = IF succ THEN Append(routes, route) ELSE routes
                  /\ Checked(p, succ, IF last THEN AfterRoutes4 ELSE "route4_add")
                  /\ idx' = [idx EXCEPT ![p] = IF ~succ THEN @ ELSE IF last THEN 1 ELSE @ + 1]
    /\ UNCHANGED <<file, iface, iptables, ip6tables, sysctl, args, runs,
                   local_ip, remote_ip, decision, before>>

\* for route in args.with_ipv6_route: ip route add <route> dev <tun_name>
Route6Add(p) ==
    /\ pc[p] = "route6_add"
    /\ LET route == args.with_ipv6_route[idx[p]]
           last == idx[p] = Len(args.with_ipv6_route)
       IN /\ Logged(p, Cmd("route_add", route, 0, 0))
          /\ \E ok \in BOOLEAN :
               LET succ == ok /\ iface.exists /\ iface.up /\ route \notin Range(routes)
               IN /\ routes' = IF succ THEN Append(routes, route) ELSE routes
                  /\ Checked(p, succ, IF last THEN AfterRoutes6 ELSE "route6_add")
                  /\ idx' = [idx EXCEPT ![p] = IF ~succ THEN @ ELSE IF last THEN 1 ELSE @ + 1]
    /\ UNCHANGED <<file, iface, iptables, ip6tables, sysctl, args, runs,
                   local_ip, remote_ip, decision, before>>

(* ------------------------- packet handling modes ----------------------- *)
Masquerade == "-t nat -A POSTROUTING -o autosit -j MASQUERADE"
AcceptIn == "-A FORWARD -i autosit -j ACCEPT"
AcceptOut == "-A FORWARD -o autosit -j ACCEPT"
Forward4 == "net.ipv4.ip_forward=1"
Forward6 == "net.ipv6.conf.all.forwarding=1"

\* a command that appends a rule to iptables
IptablesStep(p, label, rule, next) ==
    /\ pc[p] = label
    /\ Logged(p, Cmd("iptables", rule, 0, 0))
    /\ \E ok \in BOOLEAN :
         /\ iptables' = IF ok THEN Append(iptables, rule) ELSE iptables
         /\ Checked(p, ok, next)
    /\ UNCHANGED <<file, iface, routes, ip6tables, sysctl, args, runs,
                   local_ip, remote_ip, idx, decision, before>>

\* a command that appends a rule to ip6tables
Ip6tablesStep(p, label, rule, next) ==
    /\ pc[p] = label
    /\ Logged(p, Cmd("ip6tables", rule, 0, 0))
    /\ \E ok \in BOOLEAN :
         /\ ip6tables' = IF ok THEN Append(ip6tables, rule) ELSE ip6tables
         /\ Checked(p, ok, next)
    /\ UNCHANGED <<file, iface, routes, iptables, sysctl, args, runs,
                   local_ip, remote_ip, idx, decision, before>>

\* sysctl -w <key>=1
SysctlStep(p, label, setting, field, next) ==
    /\ pc[p] = label
    /\ Logged(p, Cmd("sysctl", setting, 0, 0))
    /\ \E ok \in BOOLEAN :
         /\ sysctl' = IF ok THEN [sysctl EXCEPT ![field] = TRUE] ELSE sysctl
         /\ Checked(p, ok, next)
    /\ UNCHANGED <<file, iface, routes, iptables, ip6tables, args, runs,
                   local_ip, remote_ip, idx, decision, before>>

\* args.ipv4_mode == "nat"
V4Nat(p) == IptablesStep(p, "v4_nat", Masquerade, AfterV4)

\* args.ipv4_mode == "forward": sysctl, then the two FORWARD rules
V4Sysctl(p) == SysctlStep(p, "v4_sysctl", Forward4, "ipv4_forward", "v4_accept_in")
V4AcceptIn(p) == IptablesStep(p, "v4_accept_in", AcceptIn, "v4_accept_out")
V4AcceptOut(p) == IptablesStep(p, "v4_accept_out", AcceptOut, AfterV4)

\* args.ipv6_mode == "nat"
V6Nat(p) == Ip6tablesStep(p, "v6_nat", Masquerade, "done")

\* args.ipv6_mode == "forward": sysctl, then the two FORWARD rules, which the
\* source appends with iptables
V6Sysctl(p) == SysctlStep(p, "v6_sysctl", Forward6, "ipv6_forward", "v6_accept_in")
V6AcceptIn(p) == IptablesStep(p, "v6_accept_in", AcceptIn, "v6_accept_out")
V6AcceptOut(p) == IptablesStep(p, "v6_accept_out", AcceptOut, "done")

\* sys.exit(main()): the process is gone, and with it the run's variables
Exit(p) ==
    /\ pc[p] = "done"
    /\ pc' = [pc EXCEPT ![p] = "idle"]
    /\ local_ip' = [local_ip EXCEPT ![p] = 0]
    /\ remote_ip' = [remote_ip EXCEPT ![p] = 0]
    /\ idx' = [idx EXCEPT ![p] = 0]
    /\ decision' = [decision EXCEPT ![p] = "none"]
    /\ outcome' = [outcome EXCEPT ![p] = "none"]
    /\ error' = [error EXCEPT ![p] = NoError]
    /\ log' = [log EXCEPT ![p] = <<>>]
    /\ before' = [before EXCEPT ![p] = NoWorld]
    /\ UNCHANGED <<world, args, runs>>

\* the status the process ends with: the value main() returned, handed to
\* sys.exit, or 1 when an exception left main()
ExitStatus(p) == IF error[p].exc # "none" THEN 1 ELSE 0

Step(p) ==
    \/ Start(p)
    \/ LookupLocal(p)
    \/ LookupRemote(p)
    \/ LinkShow(p)
    \/ Load(p)
    \/ Save(p)
    \/ LinkDel(p)
    \/ TunnelAdd(p)
    \/ LinkUp(p)
    \/ AddrAdd(p)
    \/ Route4Add(p)
    \/ Route6Add(p)
    \/ V4Nat(p)
    \/ V4Sysctl(p)
    \/ V4AcceptIn(p)
    \/ V4AcceptOut(p)
    \/ V6Nat(p)
    \/ V6Sysctl(p)
    \/ V6AcceptIn(p)
    \/ V6AcceptOut(p)
    \/ Exit(p)

(* ------------------------- between two runs ---------------------------- *)
\* what something else may leave at /tmp/autosit_<tun_name> between two runs: no
\* file, a record in the format save_tunnel_addrs writes, the same with a final
\* newline, a single line, an empty file, a record whose second line is no address
ExternalFiles ==
    {NoFile,
     [exists |-> TRUE, text |-> SaveText(A1, A2)],
     [exists |-> TRUE, text |-> SaveText(A2, A1)],
     [exists |-> TRUE, text |-> SaveText(A1, A2) \o <<NL>>],
     [exists |-> TRUE, text |-> IPv4Str(A1)],
     [exists |-> TRUE, text |-> <<>>],
     [exists |-> TRUE, text |-> IPv4Str(A1) \o <<NL, "x">>]}

Quiet == \A p \in Procs : pc[p] = "idle"

\* the record file is removed or rewritten out of band
FileChanged ==
    /\ Quiet
    /\ runs < MaxRuns
    /\ file' \in ExternalFiles \ {file}
    /\ UNCHANGED <<iface, routes, iptables, ip6tables, sysctl, args, runs, pc,
                   local_ip, remote_ip, idx, decision, outcome, error, log, before>>

\* the interface is removed out of band; its addresses and routes go with it
LinkRemoved ==
    /\ Quiet
    /\ runs < MaxRuns
    /\ iface.exists
    /\ iface' = NoIface
    /\ routes' = <<>>
    /\ UNCHANGED <<file, iptables, ip6tables, sysctl, args, runs, pc,
                   local_ip, remote_ip, idx, decision, outcome, error, log, before>>

Next ==
    \/ \E p \in SeqProcs : Step(p)
    \/ FileChanged
    \/ LinkRemoved

Spec == Init /\ [][Next]_vars

\* sequential runs alone: nothing but the program touches the file or the
\* interface
NextRuns == \E p \in SeqProcs : Step(p)
SpecRuns == Init /\ [][NextRuns]_vars

\* two invocations at the same time, for the same tunnel name: their statements
\* interleave in any order, nothing in the source holds a lock
NextConc == \E p \in Procs : Step(p)
ConcSpec == Init /\ [][NextConc]_vars

(* ======================================================================= *)
(*                               properties                                *)
(* ======================================================================= *)
ResolvedPair(p) == <<local_ip[p], remote_ip[p]>>

\* the record a file holds in the documented format, two newline-separated IPv4
\* addresses (local, then remote), as a set that is empty when it holds none
RecordOf(f) ==
    IF ~f.exists THEN {}
    ELSE LET lines == Split(f.text, NL)
         IN IF Len(lines) = 2 /\ IPv4Address(lines[1]) # {} /\ IPv4Address(lines[2]) # {}
            THEN {<<CHOOSE v \in IPv4Address(lines[1]) : TRUE,
                    CHOOSE v \in IPv4Address(lines[2]) : TRUE>>}
            ELSE {}

\* the calls of the Network Configurator, and those that change the OS
ConfiguratorOps ==
    {"save_state", "link_del", "tunnel_add", "link_up", "addr_add", "route_add",
     "iptables", "ip6tables", "sysctl"}
MutatingOps == ConfiguratorOps \ {"save_state"}

\* the interface carries everything the command line asks for
FullyConfigured(w, l, r) ==
    /\ w.iface.exists
    /\ w.iface.local = l
    /\ w.iface.remote = r
    /\ w.iface.up
    /\ w.iface.addrs = args.with_prefix
    /\ w.routes = args.with_ipv4_route \o args.with_ipv6_route

\* the run of p got past needs_interface_recreation, or was ended by it
DetectorDone(p) ==
    /\ Len(log[p]) > 0
    /\ pc[p] \notin {"idle", "lookup_local", "lookup_remote", "link_show", "load"}

(* C1: idempotence.  When a run starts with the interface existing, fully     *)
(* configured for the pair the run resolves, and the record holding that      *)
(* pair, the run decides healthy-noop and makes no call of the Network        *)
(* Configurator.                                                              *)
C1_Idempotence ==
    \A p \in Procs :
        (/\ DetectorDone(p)
         /\ FullyConfigured(before[p], local_ip[p], remote_ip[p])
         /\ RecordOf(before[p].file) = {ResolvedPair(p)})
        => /\ decision[p] = "healthy"
           /\ outcome[p] = "healthy-noop"
           /\ \A k \in 1..Len(log[p]) : log[p][k].op \notin ConfiguratorOps

(* C2: state precedes mutation.  Whenever a run issues a command that changes *)
(* the OS, the record already holds the pair the run resolved.                *)
C2_StatePrecedesMutation ==
    [][\A p \in Procs :
          (/\ Len(log'[p]) = Len(log[p]) + 1
           /\ log'[p][Len(log'[p])].op \in MutatingOps)
          => RecordOf(file) = {ResolvedPair(p)}]_vars

\* a run has issued the interface delete after replacing an older pair
C2_Witness ==
    \E p \in Procs :
        /\ \E k \in 1..Len(log[p]) : log[p][k].op = "link_del"
        /\ RecordOf(before[p].file) # {}
        /\ RecordOf(before[p].file) # {ResolvedPair(p)}
        /\ RecordOf(file) = {ResolvedPair(p)}

(* C3: a missing or corrupt record is folded into the decision.  When the     *)
(* interface exists and the file is absent or holds no record, the detector   *)
(* returns reconcile and the run is not ended by the load.                    *)
C3_CorruptStateFolded ==
    \A p \in Procs :
        (/\ DetectorDone(p)
         /\ before[p].iface.exists
         /\ RecordOf(before[p].file) = {})
        => /\ decision[p] = "reconcile"
           /\ error[p].at # "load"

(* C4: drift triggers rebuild.  When the interface exists and the file holds  *)
(* a record whose local or remote address differs from the resolved one, the  *)
(* detector returns reconcile.                                                *)
C4_DriftTriggersRebuild ==
    \A p \in Procs :
        (/\ DetectorDone(p)
         /\ before[p].iface.exists
         /\ \E old \in RecordOf(before[p].file) :
                old[1] # local_ip[p] \/ old[2] # remote_ip[p])
        => decision[p] = "reconcile"

(* C5: absence triggers rebuild.  When the probe finds no interface, the      *)
(* detector returns reconcile whatever the file holds, and the file is not    *)
(* read.                                                                      *)
C5_AbsenceTriggersRebuild ==
    \A p \in Procs :
        (Len(log[p]) > 0 /\ ~before[p].iface.exists)
        => /\ decision[p] = "reconcile"
           /\ \A k \in 1..Len(log[p]) : log[p][k].op # "read_state"

\* no interface, and the file holds exactly the pair the run resolved
C5_Witness ==
    \E p \in Procs :
        /\ Len(log[p]) > 0
        /\ ~before[p].iface.exists
        /\ RecordOf(before[p].file) = {ResolvedPair(p)}
        /\ decision[p] = "reconcile"

(* C6: a resolution failure aborts before any effect.  For a run at a lookup,  *)
(* a response that is an HTTP error, has a Status other than 0, has no answer *)
(* or has a first answer that is no dotted quad makes the lookup raise; a run *)
(* ended by a lookup has                                                      *)
(* made no external call and changed nothing; a run that made an external     *)
(* call holds two resolved addresses.                                         *)
FailingResponse(resp) ==
    \/ ~resp.http_ok
    \/ resp.Status # 0
    \/ Len(resp.Answer) = 0
    \/ resp.Answer[1] \notin {IPv4Str(a) : a \in Addrs}

C6_ResolutionFailureAborts ==
    /\ \A p \in Procs :
           pc[p] \in {"lookup_local", "lookup_remote"}
           => \A resp \in Responses :
                  FailingResponse(resp) => look_up_ip_addr(resp).exc # "none"
    /\ \A p \in Procs :
           error[p].at \in {"lookup_local", "lookup_remote"}
           => /\ pc[p] = "done"
              /\ outcome[p] = "failed"
              /\ log[p] = <<>>
              /\ World = before[p]
    /\ \A p \in Procs :
           (log[p] # <<>> \/ (pc[p] # "idle" /\ World # before[p]))
           => local_ip[p] \in Addrs /\ remote_ip[p] \in Addrs

\* the local name resolved, the remote one did not, and an interface and a file
\* were there to be touched
C6_Witness ==
    \E p \in Procs :
        /\ error[p].at = "lookup_remote"
        /\ local_ip[p] \in Addrs
        /\ before[p].iface.exists
        /\ before[p].file.exists

(* C7: failure propagation in the Network Configurator.  The interface delete *)
(* never ends the run: the tunnel add is the next call.  A failure of any     *)
(* other command ends the run at that command: it is the last call, the       *)
(* record still holds the resolved pair, and every earlier command took       *)
(* effect.                                                                    *)
CommandLabels ==
    {"tunnel_add", "link_up", "addr_add", "route4_add", "route6_add",
     "v4_nat", "v4_sysctl", "v4_accept_in", "v4_accept_out",
     "v6_nat", "v6_sysctl", "v6_accept_in", "v6_accept_out"}

\* the calls of the run that did not fail
Applied(p) ==
    IF error[p].at \in CommandLabels THEN SubSeq(log[p], 1, Len(log[p]) - 1) ELSE log[p]

CountOp(q, op) == Cardinality({k \in 1..Len(q) : q[k].op = op})

TookEffect(p, e) ==
    CASE e.op = "tunnel_add" ->
             iface.exists /\ iface.local = local_ip[p] /\ iface.remote = remote_ip[p]
      [] e.op = "link_up" -> iface.exists /\ iface.up
      [] e.op = "addr_add" -> e.arg \in Range(iface.addrs)
      [] e.op = "route_add" -> e.arg \in Range(routes)
      [] e.op = "sysctl" ->
             IF e.arg = Forward4 THEN sysctl.ipv4_forward ELSE sysctl.ipv6_forward
      [] OTHER -> TRUE

C7_FailurePropagation ==
    \A p \in Procs :
        /\ error[p].at # "link_del"
        /\ \A k \in 1..Len(log[p]) :
               log[p][k].op = "link_del"
               => IF k < Len(log[p]) THEN log[p][k + 1].op = "tunnel_add"
                  ELSE pc[p] = "tunnel_add"
        /\ error[p].at \in CommandLabels
           => /\ pc[p] = "done"
              /\ outcome[p] = "failed"
              /\ error[p].exc = "CalledProcessError"
              /\ log[p][Len(log[p])].step = error[p].at
              /\ RecordOf(file) = {ResolvedPair(p)}
        /\ \A k \in 1..Len(Applied(p)) : TookEffect(p, log[p][k])
        /\ pc[p] # "idle"
           => /\ Len(iptables) = Len(before[p].iptables) + CountOp(Applied(p), "iptables")
              /\ Len(ip6tables) = Len(before[p].ip6tables) + CountOp(Applied(p), "ip6tables")

\* the delete failed (there was no interface), the tunnel was added, and a later
\* command ended the run
C7_Witness ==
    \E p \in Procs :
        /\ ~before[p].iface.exists
        /\ error[p].at \in CommandLabels \ {"tunnel_add"}
        /\ iface.exists

(* C8: fixed step order.  The calls a run makes after the detector are, step  *)
(* by step, an initial part of: save the record, delete the interface, add    *)
(* the tunnel bound to the resolved pair, set the link up, one address        *)
(* command per prefix, one route command per IPv4 route, one per IPv6 route,  *)
(* the IPv4 mode commands, the IPv6 mode commands; a reconciled run made all  *)
(* of them.                                                                   *)
IsPrefix(a, b) == Len(a) <= Len(b) /\ a = SubSeq(b, 1, Len(a))

Repeat(x, n) == [k \in 1..n |-> x]

FixedOrder ==
    <<"save", "link_del", "tunnel_add", "link_up">>
    \o Repeat("addr_add", Len(args.with_prefix))
    \o Repeat("route4_add", Len(args.with_ipv4_route))
    \o Repeat("route6_add", Len(args.with_ipv6_route))
    \o (IF args.ipv4_mode = "nat" THEN <<"v4_nat">>
        ELSE <<"v4_sysctl", "v4_accept_in", "v4_accept_out">>)
    \o (IF args.ipv6_mode = "nat" THEN <<"v6_nat">>
        ELSE <<"v6_sysctl", "v6_accept_in", "v6_accept_out">>)

\* the kind of command each step issues
OpsOfStep(step) ==
    CASE step = "save" -> {"save_state"}
      [] step = "link_del" -> {"link_del"}
      [] step = "tunnel_add" -> {"tunnel_add"}
      [] step = "link_up" -> {"link_up"}
      [] step = "addr_add" -> {"addr_add"}
      [] step \in {"route4_add", "route6_add"} -> {"route_add"}
      [] step \in {"v4_sysctl", "v6_sysctl"} -> {"sysctl"}
      [] OTHER -> {"iptables", "ip6tables"}

\* the calls of the run after those of the detector
ConfiguratorLog(p) == SelectSeq(log[p], LAMBDA e : e.op \in ConfiguratorOps)
StepsOf(q) == [k \in 1..Len(q) |-> q[k].step]

C8_FixedStepOrder ==
    \A p \in Procs :
        LET cl == ConfiguratorLog(p)
        IN /\ IsPrefix(StepsOf(cl), FixedOrder)
           /\ \A k \in 1..Len(cl) : cl[k].op \in OpsOfStep(cl[k].step)
           /\ \A k \in 1..Len(cl) :
                  cl[k].op \in {"save_state", "tunnel_add"}
                  => cl[k].local = local_ip[p] /\ cl[k].remote = remote_ip[p]
           /\ cl = SubSeq(log[p], Len(log[p]) - Len(cl) + 1, Len(log[p]))
           /\ outcome[p] = "reconciled" => StepsOf(cl) = FixedOrder
           /\ pc[p] \in CommandLabels \cup {"link_del"}
              => IsPrefix(Append(StepsOf(cl), pc[p]), FixedOrder)

\* a run went through every step, with more than one route of each family
C8_Witness ==
    \E p \in Procs :
        /\ outcome[p] = "reconciled"
        /\ Len(args.with_prefix) > 1
        /\ Len(args.with_ipv4_route) > 1
        /\ Len(args.with_ipv6_route) > 1

(* C9: order preservation.  The address commands name the prefixes in the     *)
(* order of the command line, the route commands the IPv4 routes in their     *)
(* order and, only after all of them, the IPv6 routes in theirs.  When the    *)
(* k-th of them fails it is the last call of the run, and the interface       *)
(* carries exactly the k-1 before it.                                         *)
ArgsAt(p, step) ==
    LET q == SelectSeq(log[p], LAMBDA e : e.step = step)
    IN [k \in 1..Len(q) |-> q[k].arg]

\* list q without its last element when the run failed at step
ButFailed(p, q, step) ==
    IF error[p].at = step THEN SubSeq(q, 1, Len(q) - 1) ELSE q

C9_OrderPreservation ==
    \A p \in Procs :
        LET pf == ArgsAt(p, "addr_add")
            r4 == ArgsAt(p, "route4_add")
            r6 == ArgsAt(p, "route6_add")
        IN /\ IsPrefix(pf, args.with_prefix)
           /\ IsPrefix(r4, args.with_ipv4_route)
           /\ IsPrefix(r6, args.with_ipv6_route)
           /\ Len(r4) > 0 => pf = args.with_prefix
           /\ Len(r6) > 0 => pf = args.with_prefix /\ r4 = args.with_ipv4_route
           /\ \A j, k \in 1..Len(log[p]) :
                  (log[p][j].step = "route6_add" /\ log[p][k].step = "route4_add") => k < j
           /\ error[p].at \in {"addr_add", "route4_add", "route6_add"}
              => log[p][Len(log[p])].step = error[p].at
           /\ Len(pf) > 0
              => /\ iface.addrs = ButFailed(p, pf, "addr_add")
                 /\ routes = ButFailed(p, r4, "route4_add") \o ButFailed(p, r6, "route6_add")

\* the second IPv6 route failed after every IPv4 route and the first IPv6 route
\* were installed
C9_Witness ==
    \E p \in Procs :
        /\ error[p].at = "route6_add"
        /\ Len(args.with_ipv4_route) > 1
        /\ Len(ArgsAt(p, "route6_add")) = 2
        /\ routes = Append(args.with_ipv4_route, args.with_ipv6_route[1])

(* C10 (not settled): no run of the program ends healthy-noop, so what such   *)
(* a run changes cannot be observed.  These two facts are what TLC finds.     *)
\* the load never succeeds: no run is ever decided healthy
NoRunIsHealthy == \A p \in Procs : outcome[p] # "healthy-noop" /\ decision[p] # "healthy"

\* until the detector has decided reconcile, the run has made only the probe
\* and the read and has changed nothing
DetectorIsPure ==
    \A p \in Procs :
        (pc[p] # "idle" /\ decision[p] # "reconcile")
        => /\ World = before[p]
           /\ IsPrefix(log[p], <<[Cmd("link_show", TunName, 0, 0) EXCEPT !.step = "link_show"],
                                 [Cmd("read_state", TunName, 0, 0) EXCEPT !.step = "load"]>>)

\* the rules a run has added to the end of a rule list
AddedBy(now, was) == SubSeq(now, Len(was) + 1, Len(now))

(* C11: the IPv6 policy uses IPv6-specific rules.  A reconciled run with the   *)
(* IPv6 mode forward has set the IPv6 forwarding toggle and has appended the  *)
(* in-interface and out-interface accept rules to ip6tables, and to iptables  *)
(* only what the IPv4 mode asks for; with the IPv6 mode nat it has appended   *)
(* the masquerade rule to the nat table of ip6tables.                         *)
V4Rules == IF args.ipv4_mode = "nat" THEN <<Masquerade>> ELSE <<AcceptIn, AcceptOut>>
V6Rules == IF args.ipv6_mode = "nat" THEN <<Masquerade>> ELSE <<AcceptIn, AcceptOut>>

C11_Ipv6PolicyInIpv6Filter ==
    \A p \in Procs :
        outcome[p] = "reconciled"
        => /\ args.ipv6_mode = "forward" => sysctl.ipv6_forward
           /\ AddedBy(ip6tables, before[p].ip6tables) = V6Rules
           /\ AddedBy(iptables, before[p].iptables) = V4Rules

(* C12: one terminal outcome and the exit status.  How a run ended is        *)
(* exactly one of reconciled, healthy-noop and failed; the exit status is 0   *)
(* exactly for reconciled and healthy-noop.  A run is reconciled only when    *)
(* every command of the fixed order was issued and took effect, and failed    *)
(* exactly when an exception was raised: in a lookup, in the load, in the     *)
(* save or by a checked command.  A started run ends: it is always at a       *)
(* statement that can be executed, and every step takes it to a later         *)
(* statement of a list that ends with the end of the run.                     *)
Terminated(p) == pc[p] = "done"

C12_Outcome ==
    \A p \in Procs :
        /\ Terminated(p) <=> outcome[p] # "none"
        /\ outcome[p] \in {"none", "reconciled", "healthy-noop", "failed"}
        /\ Terminated(p)
           => /\ ExitStatus(p) = 0 <=> outcome[p] \in {"reconciled", "healthy-noop"}
              /\ ExitStatus(p) # 0 <=> outcome[p] = "failed"
              /\ outcome[p] = "failed" <=> error[p].exc # "none"
              /\ outcome[p] = "failed"
                 => error[p].at \in {"lookup_local", "lookup_remote", "load", "save"}
                                    \cup CommandLabels
              /\ outcome[p] = "reconciled"
                 => /\ decision[p] = "reconcile"
                    /\ StepsOf(ConfiguratorLog(p)) = FixedOrder
                    /\ RecordOf(file) = {ResolvedPair(p)}
                    /\ \A k \in 1..Len(log[p]) : TookEffect(p, log[p][k])
                    /\ Len(iptables) = Len(before[p].iptables) + CountOp(log[p], "iptables")
                    /\ Len(ip6tables) = Len(before[p].ip6tables) + CountOp(log[p], "ip6tables")
              /\ outcome[p] = "healthy-noop"
                 => decision[p] = "healthy" /\ World = before[p]

\* the statements of a run, in the order of the source
Statements ==
    <<"lookup_local", "lookup_remote", "link_show", "load">> \o FixedOrder \o <<"done">>

LoopLabels == {"addr_add", "route4_add", "route6_add"}

LoopList(label) ==
    CASE label = "addr_add" -> args.with_prefix
      [] label = "route4_add" -> args.with_ipv4_route
      [] label = "route6_add" -> args.with_ipv6_route

\* where a run stands in the list; inside a loop, at the idx-th round
\* (the rounds of a loop stand next to each other in the list st)
Position(st, label, i) ==
    LET first == CHOOSE k \in 1..Len(st) : st[k] = label /\ (k = 1 \/ st[k - 1] # label)
    IN IF label \in LoopLabels THEN first + i - 1 ELSE first

\* the statement a run is at can be executed
CanStep(st, p) ==
    /\ \E k \in 1..Len(st) : st[k] = pc[p]
    /\ pc[p] \in LoopLabels => idx[p] \in 1..Len(LoopList(pc[p]))
    /\ st[Position(st, pc[p], idx[p])] = pc[p]

\* every step starts in a state with the right outcome and exit status and with
\* every run at a statement that can be executed, and moves the run that takes it
\* to a later statement; a finished run always has the step Exit before it, so
\* the states of finished runs are among those the steps start in
C12_TerminalOutcome ==
    [][/\ C12_Outcome
       /\ \A p \in Procs :
              pc[p] \notin {"idle", "done"}
              => LET st == Statements
                 IN /\ CanStep(st, p)
                    /\ <<pc[p], idx[p]>>' # <<pc[p], idx[p]>>
                       => /\ \E k \in 1..Len(st) : st[k] = pc'[p]
                          /\ Position(st, pc'[p], idx'[p]) > Position(st, pc[p], idx[p])]_vars

\* a run ended by the last command of the fixed order, with a nonzero status
C12_Witness ==
    \E p \in Procs :
        /\ Terminated(p)
        /\ error[p].at \in {"v6_nat", "v6_accept_out"}
        /\ ExitStatus(p) = 1

(* C13: record integrity.  In sequential runs the file holds no field at all  *)
(* (it is absent or empty) or exactly the text save_tunnel_addrs writes for   *)
(* one pair; it changes only in the save of a run, and then to the pair that  *)
(* run resolved, both fields at once, or to nothing; a save that succeeds     *)
(* leaves that run's pair whatever the file held before.                      *)
NoRecord(f) == ~f.exists \/ f.text = <<>>
WholeRecord(f, l, r) ==
    /\ f = [exists |-> TRUE, text |-> SaveText(l, r)]
    /\ RecordOf(f) = {<<l, r>>}

C13_RecordIntegrity ==
    /\ [](NoRecord(file) \/ \E l, r \in Addrs : WholeRecord(file, l, r))
    /\ [][\A p \in Procs :
             /\ (pc[p] = "save" /\ pc'[p] = "link_del")
                => WholeRecord(file', local_ip[p], remote_ip[p])
             /\ (pc[p] = "save" /\ pc'[p] = "done")
                => file' = file \/ (file'.exists /\ file'.text = <<>>)]_vars
    /\ [][file' # file => \E p \in Procs : pc[p] = "save" /\ pc'[p] # pc[p]]_vars

\* a run has replaced the record of an earlier run by a pair that differs from it
\* in both fields
C13_Witness ==
    \E p \in Procs :
        /\ RecordOf(before[p].file) = {<<A1, A2>>}
        /\ WholeRecord(file, A2, A1)
        /\ ResolvedPair(p) = <<A2, A1>>

\* what a failed run leaves behind: the interface bound to the pair, the record
\* holding the pair, and not every prefix and route on the interface
LeftHalfDone(w, l, r) ==
    /\ w.iface.exists
    /\ w.iface.local = l
    /\ w.iface.remote = r
    /\ RecordOf(w.file) = {<<l, r>>}
    /\ ~FullyConfigured(w, l, r)

(* C14: the limitation after a partial failure.  A run that starts with the   *)
(* interface a failed run left half done, and resolves the pair it is bound   *)
(* to, decides healthy-noop and issues no command of the Network              *)
(* Configurator.                                                              *)
C14_StaleHealthyAfterPartialFailure ==
    \A p \in Procs :
        (DetectorDone(p) /\ LeftHalfDone(before[p], local_ip[p], remote_ip[p]))
        => /\ decision[p] = "healthy"
           /\ outcome[p] = "healthy-noop"
           /\ \A k \in 1..Len(log[p]) : log[p][k].op \notin ConfiguratorOps

(* C15: the save/load round trip.  When a run comes to the load and the file  *)
(* holds what save_tunnel_addrs wrote for a pair (local, remote), the load    *)
(* raises nothing and yields exactly (local, remote).                         *)
C15_SaveLoadRoundTrip ==
    \A p \in Procs : \A l, r \in Addrs :
        (pc[p] = "load" /\ WholeRecord(file, l, r))
        => LoadRecord(file) = [exc |-> "none", local |-> l, remote |-> r]

(* C16: retry after failure.  A run that starts with the interface a failed   *)
(* run left half done, and resolves the same pair, decides reconcile and goes *)
(* through the reconciliation again.                                          *)
C16_RetryAfterFailure ==
    \A p \in Procs :
        (DetectorDone(p) /\ LeftHalfDone(before[p], local_ip[p], remote_ip[p]))
        => /\ decision[p] = "reconcile"
           /\ \E k \in 1..Len(log[p]) : log[p][k].op = "save_state"

PolicyApplied(w) == Len(w.iptables) + Len(w.ip6tables) = Len(V4Rules) + Len(V6Rules)

C18_PolicyIdempotent ==
    \A p \in Procs :
        (outcome[p] = "reconciled" /\ PolicyApplied(before[p]))
        => /\ iptables = before[p].iptables
           /\ ip6tables = before[p].ip6tables

(* C19: concurrent runs can corrupt, and the corruption stays hidden.  Two    *)
(* runs for the same tunnel name that interleave and resolve different pairs  *)
(* can both finish with the interface bound to the pair of one and the record *)
(* holding the pair of the other; in such a state the detector of a later run *)
(* that resolves the recorded pair loads the record and finds no change, so   *)
(* that run is a healthy no-op on the wrongly bound interface.                *)
\* both runs are over, the interface is bound to the pair of p and the record
\* holds the different pair of q
Corrupted(p, q) ==
    /\ pc[p] = "done"
    /\ pc[q] = "done"
    /\ ResolvedPair(p) # ResolvedPair(q)
    /\ iface.exists
    /\ <<iface.local, iface.remote>> = ResolvedPair(p)
    /\ RecordOf(file) = {ResolvedPair(q)}

C19_ConcurrentCorruptionHidden ==
    \A p, q \in Procs :
        Corrupted(p, q)
        => LET old == LoadRecord(file)
           IN /\ old.exc = "none"
              /\ ~AddressesChanged(local_ip[q], remote_ip[q], old)

\* the first half of C19 alone: TLC reaches this state under ConcSpec, with both
\* runs reconciled
C19_BothReconciledCorrupted ==
    \E p, q \in Procs :
        Corrupted(p, q) /\ outcome[p] = "reconciled" /\ outcome[q] = "reconciled"

====
